---- MODULE Spec2Model ----
(***************************************************************************)
(* A model of three pieces of Kibana glue code:                            *)
(*   - the Elasticsearch client's query logging (configureClient,          *)
(*     addLogging, getResponseMessage, getErrorMessage, ensureString);     *)
(*   - the URL drilldown (UrlDrilldown);                                   *)
(*   - the lazy registration of the Lens datatable visualization.          *)
(*                                                                         *)
(* A JavaScript string is a sequence of tokens (each token a short piece   *)
(* of text), so that concatenation is \o and the empty string is << >>.    *)
(***************************************************************************)
EXTENDS Integers, Sequences, FiniteSets, TLC

VARIABLES
    \* ---- query logging
    configured,   \* configureClient has built the client and attached the listener
    logQueries,   \* config.logQueries captured by addLogging's closure
    nResponse,    \* 'response' events emitted so far
    errorCalls,   \* calls of logger.error so far
    debugCalls,   \* calls of logger.debug so far
    lastError,    \* the error argument of the latest 'response' event
    lastEvent,    \* the event argument of the latest 'response' event
    lastLog,      \* what the latest 'response' event handed to the logger
    \* ---- URL drilldown
    globalScope,  \* what deps.getGlobalScope() returns now
    execs,        \* the calls of execute so far, each with its promise's state
    navCalls,     \* the calls of deps.navigateToUrl so far
    openCalls,    \* the calls of window.open so far
    call,         \* the latest call of another method, with what it returned
    \* ---- the drilldown's config objects
    heap,         \* the config objects allocated so far
    created,      \* what each call of createConfig returned: a reference, and the object then
    view,         \* per created config, the value its holder last gave it
    checked,      \* the latest call of isConfigValid, with what it returned
    \* ---- Lens datatable visualization
    setups,       \* calls of DatatableVisualization.setup so far
    vizLoaders,   \* loaders handed to editorFrame.registerVisualization so far
    loads,        \* the loader's invocations so far, each with its promise's state
    registry      \* the calls of expressions.registerFunction / registerRenderer so far

logVars == <<configured, logQueries, nResponse, errorCalls, debugCalls,
             lastError, lastEvent, lastLog>>

drillVars == <<globalScope, execs, navCalls, openCalls, call>>

cfgVars == <<heap, created, view, checked>>

lensVars == <<setups, vizLoaders, loads, registry>>

vars == <<logVars, drillVars, cfgVars, lensVars>>

notLog   == <<drillVars, cfgVars, lensVars>>
notDrill == <<logVars, cfgVars, lensVars>>
notCfg   == <<logVars, drillVars, lensVars>>
notLens  == <<logVars, drillVars, cfgVars>>

(***************************************************************************)
(* Bounds of the model.                                                    *)
(***************************************************************************)
\* 'response' events per behaviour
MaxResponses == 2
\* calls of execute per behaviour where their promises are followed (SpecExec)
MaxExec == 2
\* calls of execute per behaviour among the other methods' calls (SpecDrill)
MaxTracked == 1
\* calls of createConfig per behaviour
MaxConfigs == 2
\* calls of DatatableVisualization.setup per behaviour
MaxSetups == 1
\* invocations of the loader per behaviour
MaxLoads == 4

(***************************************************************************)
(* JavaScript values that may be undefined, null or a string.              *)
(***************************************************************************)
Undefined == [tag |-> "undefined", s |-> << >>]
Null      == [tag |-> "null", s |-> << >>]
StrVal(s) == [tag |-> "string", s |-> s]

\* `${v}` in a template literal
Interpolate(v) ==
    IF v.tag = "undefined" THEN <<"undefined">>
    ELSE IF v.tag = "null" THEN <<"null">>
    ELSE v.s

\* a || b in place of a ?? b: the empty string falls back too
Coalesce_Or(a, b) == IF a.tag \in {"undefined", "null"} \/ a.s = << >> THEN b ELSE a

\* a ?? b
Coalesce(a, b) == IF a.tag \in {"undefined", "null"} THEN b ELSE a

RECURSIVE Contains(_, _)
Contains(s, tok) ==
    IF s = << >> THEN FALSE
    ELSE Head(s) = tok \/ Contains(Tail(s), tok)

(***************************************************************************)
(* querystring.stringify: key=value pairs joined by '&', values escaped.   *)
(***************************************************************************)
EscapeToken(t) == IF t = " " THEN "%20" ELSE IF t = "&" THEN "%26" ELSE t

RECURSIVE Escape(_)
Escape(s) == IF s = << >> THEN << >> ELSE <<EscapeToken(Head(s))>> \o Escape(Tail(s))

RECURSIVE stringify(_)
stringify(pairs) ==
    IF pairs = << >> THEN << >>
    ELSE LET p == Head(pairs)
             one == <<p.key, "=">> \o Escape(p.value)
         IN  IF Tail(pairs) = << >> THEN one
             ELSE one \o <<"&">> \o stringify(Tail(pairs))

(***************************************************************************)
(* The inputs: params.querystring, params.body, the response body, errors. *)
(***************************************************************************)
QsUndefined  == [tag |-> "undefined", s |-> << >>, pairs |-> << >>]
QsString(s)  == [tag |-> "string", s |-> s, pairs |-> << >>]
QsObject(ps) == [tag |-> "object", s |-> << >>, pairs |-> ps]

QueryStrings ==
    { QsUndefined,
      QsString(<< >>),
      QsString(<<"pretty">>),
      QsObject(<< >>),
      QsObject(<<[key |-> "q", value |-> <<"a", " ", "b">>]>>),
      QsObject(<<[key |-> "q", value |-> <<"x">>], [key |-> "size", value |-> <<"1">>]>>) }

\* A request body: kind is what typeof / Buffer.isBuffer tell; readable is the
\* 'readable' property ("absent" when 'readable' in body is false); read is
\* typeof body._read === 'function'; content is the data the body carries.
Body(kind, readable, read, content) ==
    [kind |-> kind, readable |-> readable, read |-> read, content |-> content]

BodyUndefined == Body("undefined", "absent", FALSE, << >>)

Bodies ==
    { BodyUndefined,
      Body("string", "absent", FALSE, << >>),
      Body("string", "absent", FALSE, <<"QUERY">>),
      Body("buffer", "absent", FALSE, <<"BYTES">>),
      Body("buffer", "true", TRUE, <<"BYTES">>),
      Body("object", "true", TRUE, <<"CHUNKS">>),
      Body("object", "false", TRUE, <<"STATE">>),
      Body("object", "true", FALSE, <<"DOC">>),
      Body("object", "absent", FALSE, <<"DOC">>) }

\* event.body, the response body: defined or not, with an error object or not.
RespBody(defined, hasError, type, reason) ==
    [defined |-> defined, hasError |-> hasError, type |-> type, reason |-> reason]

RespBodies ==
    { RespBody(FALSE, FALSE, Undefined, Undefined),
      RespBody(TRUE, FALSE, Undefined, Undefined),
      RespBody(TRUE, TRUE, StrVal(<<"TYPE">>), StrVal(<<"REASON">>)),
      RespBody(TRUE, TRUE, StrVal(<<"TYPE">>), StrVal(<< >>)),
      RespBody(TRUE, TRUE, StrVal(<<"TYPE">>), Null),
      RespBody(TRUE, TRUE, Undefined, Undefined) }

Methods     == {"GET"}
Paths       == {"/idx/_search"}

AbsentEvent ==
    [present |-> FALSE, statusCode |-> 0, method |-> "", path |-> "",
     querystring |-> QsUndefined, body |-> BodyUndefined,
     respBody |-> RespBody(FALSE, FALSE, Undefined, Undefined)]

\* Requests of every querystring and body shape that were answered 200, and
\* failed requests (404) with every shape of response body.
PresentEvents ==
    [present : {TRUE}, statusCode : {200}, method : Methods, path : Paths,
     querystring : QueryStrings, body : Bodies,
     respBody : {RespBody(TRUE, FALSE, Undefined, Undefined)}]
    \cup
    [present : {TRUE}, statusCode : {404}, method : Methods, path : Paths,
     querystring : {QsUndefined, QsString(<<"pretty">>)},
     body : {BodyUndefined, Body("object", "absent", FALSE, <<"DOC">>)},
     respBody : RespBodies]

Events == PresentEvents \cup {AbsentEvent}

\* The callback's error argument: null, a ResponseError, or another ApiError.
NoError == [present |-> FALSE, isResponseError |-> FALSE, name |-> "", message |-> << >>]

Errors ==
    { NoError,
      [present |-> TRUE, isResponseError |-> TRUE, name |-> "ResponseError",
       message |-> <<"MSG">>],
      [present |-> TRUE, isResponseError |-> FALSE, name |-> "ConnectionError",
       message |-> <<"MSG">>] }

(***************************************************************************)
(* The logging helpers.                                                    *)
(***************************************************************************)
convertQueryString(qs) ==
    IF qs.tag = "undefined" \/ qs.tag = "string"
    THEN (IF qs.tag = "undefined" THEN << >> ELSE qs.s)
    ELSE stringify(qs.pairs)

JSONstringify(body) == <<"{">> \o body.content \o <<"}">>

\* ensureString without its Buffer case
ensureString_NoBufferCase(body) ==
    IF body.kind = "string" THEN body.content
    ELSE IF body.readable # "absent" /\ body.readable = "true" /\ body.read
         THEN <<"[stream]">>
    ELSE JSONstringify(body)

ensureString(body) ==
    IF body.kind = "string" THEN body.content
    ELSE IF body.kind = "buffer" THEN <<"[buffer]">>
    ELSE IF body.readable # "absent" /\ body.readable = "true" /\ body.read
         THEN <<"[stream]">>
    ELSE JSONstringify(body)

\* the truthiness of params.body
Truthy(body) ==
    /\ body.kind # "undefined"
    /\ ~(body.kind = "string" /\ body.content = << >>)

\* getResponseMessage with the '?' appended whatever the querystring
getResponseMessage_AlwaysMark(event) ==
    LET querystring == convertQueryString(event.querystring)
        url  == <<event.path>> \o <<"?">> \o querystring
        body == IF Truthy(event.body) THEN <<"\n">> \o ensureString(event.body) ELSE << >>
    IN  <<ToString(event.statusCode), "\n", event.method, " ">> \o url \o body

getResponseMessage(event) ==
    LET querystring == convertQueryString(event.querystring)
        url  == <<event.path>> \o (IF querystring # << >> THEN <<"?">> \o querystring ELSE << >>)
        body == IF Truthy(event.body) THEN <<"\n">> \o ensureString(event.body) ELSE << >>
    IN  <<ToString(event.statusCode), "\n", event.method, " ">> \o url \o body

\* event.body?.error?.type and event.body?.error?.reason
ErrorType(event) ==
    IF event.respBody.defined /\ event.respBody.hasError THEN event.respBody.type ELSE Undefined

ErrorReason(event) ==
    IF event.respBody.defined /\ event.respBody.hasError THEN event.respBody.reason ELSE Undefined

getErrorMessage(error, event) ==
    IF error.isResponseError
    THEN getResponseMessage(event) \o <<" [">> \o Interpolate(ErrorType(event)) \o <<"]: ">>
         \o Interpolate(Coalesce(ErrorReason(event), StrVal(error.message)))
    ELSE <<"[", error.name, "]: ">> \o error.message

(***************************************************************************)
(* configureClient and the 'response' listener of addLogging.              *)
(***************************************************************************)
NoLog == [level |-> "none", msg |-> << >>, tags |-> << >>]

\* the guard without the logQueries flag: if (event)
ShouldLog_IgnoresFlag(event, flag) == event.present

\* the listener's guard: if (event && logQueries)
ShouldLog(event, flag) == event.present /\ flag

\* what the listener hands to the logger once the guard holds
LogEntry(error, event) ==
    IF error.present
    THEN [level |-> "error", msg |-> getErrorMessage(error, event), tags |-> << >>]
    ELSE [level |-> "debug", msg |-> getResponseMessage(event), tags |-> <<"query">>]

ConfigureClient(flag) ==
    /\ ~configured
    /\ configured' = TRUE
    /\ logQueries' = flag
    /\ UNCHANGED <<nResponse, errorCalls, debugCalls, lastError, lastEvent, lastLog>>
    /\ UNCHANGED notLog

OnResponse(error, event) ==
    /\ configured
    /\ nResponse < MaxResponses
    /\ nResponse' = nResponse + 1
    /\ lastError' = error
    /\ lastEvent' = event
    /\ LET entry == IF ShouldLog(event, logQueries) THEN LogEntry(error, event) ELSE NoLog
       IN  /\ lastLog' = entry
           /\ errorCalls' = errorCalls + (IF entry.level = "error" THEN 1 ELSE 0)
           /\ debugCalls' = debugCalls + (IF entry.level = "debug" THEN 1 ELSE 0)
    /\ UNCHANGED <<configured, logQueries>>
    /\ UNCHANGED notLog

InitLog ==
    /\ configured = FALSE
    /\ logQueries = FALSE
    /\ nResponse = 0
    /\ errorCalls = 0
    /\ debugCalls = 0
    /\ lastError = NoError
    /\ lastEvent = AbsentEvent
    /\ lastLog = NoLog

NextLog ==
    \/ \E flag \in BOOLEAN : ConfigureClient(flag)
    \/ \E error \in Errors, event \in Events : OnResponse(error, event)

(***************************************************************************)
(* The URL drilldown: templates, contexts and scopes.                      *)
(*                                                                         *)
(* A URL template is a sequence of parts, a literal or a {{variable}}      *)
(* named by its path in the scope.                                         *)
(***************************************************************************)
Lit(text) == [kind |-> "lit", text |-> text, path |-> << >>]
Var(path) == [kind |-> "var", text |-> "", path |-> path]

EmptyTemplate == << >>
EventTemplate ==
    <<Lit("https://a/?v="), Var(<<"event", "value">>), Lit("&p="),
      Var(<<"context", "panel", "id">>)>>
KibanaTemplate == <<Var(<<"kibanaUrl">>), Lit("/app")>>

Templates == {EmptyTemplate, EventTemplate, KibanaTemplate}

Configs == [url : [template : Templates], openInNewTab : BOOLEAN]

\* The action context: the panel the trigger fired on and the value clicked.
Contexts ==
    { [panelId |-> <<"p1">>, value |-> <<"v1">>],
      [panelId |-> <<"p2">>, value |-> <<"a", " ", "b">>] }

\* What deps.getGlobalScope() may return: the Kibana URL alone, or a scope
\* without it that carries keys named 'context' and 'event' of its own.
PlainScope == [kibanaUrl |-> <<"http://kbn">>]
ShadowScope ==
    [locale  |-> <<"en">>,
     context |-> [panel |-> [id |-> <<"GLOBAL">>]],
     event   |-> [value |-> <<"GLOBAL">>]]

GlobalScopes == {PlainScope, ShadowScope}

getPanelVariables(context) == [id |-> context.panelId]
getEventScope(context) == [value |-> context.value]

\* { context: ..., event: ..., ...getGlobalScope() }: the spread written last
getRuntimeVariables_SpreadLast(gs, context) ==
    [k \in DOMAIN gs \cup {"context", "event"} |->
        IF k \in DOMAIN gs THEN gs[k]
        ELSE IF k = "context" THEN [panel |-> getPanelVariables(context)]
        ELSE getEventScope(context)]

\* { ...getGlobalScope(), context: { panel: ... }, event: ... }
getRuntimeVariables(gs, context) ==
    [k \in DOMAIN gs \cup {"context", "event"} |->
        IF k = "context" THEN [panel |-> getPanelVariables(context)]
        ELSE IF k = "event" THEN getEventScope(context)
        ELSE gs[k]]

\* the value at a path of the scope, if there is one
RECURSIVE Lookup(_, _)
Lookup(obj, path) ==
    IF Head(path) \notin DOMAIN obj THEN [found |-> FALSE, v |-> << >>]
    ELSE IF Len(path) = 1 THEN [found |-> TRUE, v |-> obj[Head(path)]]
    ELSE Lookup(obj[Head(path)], Tail(path))

\* the template rendered against the scope (a variable the scope lacks renders
\* empty), then URI-encoded
RECURSIVE Render(_, _)
Render(template, scope) ==
    IF template = << >> THEN << >>
    ELSE LET part == Head(template)
         IN  (IF part.kind = "lit" THEN <<part.text>> ELSE Lookup(scope, part.path).v)
             \o Render(Tail(template), scope)

urlDrilldownCompileUrl(template, scope) == Escape(Render(template, scope))

\* valid: a non-empty template all of whose variables the scope holds
urlDrilldownValidateUrlTemplate(url, scope) ==
    LET ok == /\ url.template # << >>
              /\ \A i \in 1..Len(url.template) :
                    url.template[i].kind = "var" => Lookup(scope, url.template[i].path).found
    IN  [isValid |-> ok, error |-> IF ok THEN << >> ELSE <<"invalid format">>]

(***************************************************************************)
(* The methods of UrlDrilldown.                                            *)
(***************************************************************************)
NoConfig  == [url |-> [template |-> << >>], openInNewTab |-> FALSE]
NoContext == [panelId |-> << >>, value |-> << >>]
NoCall ==
    [op |-> "none", config |-> NoConfig, context |-> NoContext, gs |-> PlainScope,
     url |-> << >>, valid |-> FALSE, warned |-> FALSE, scope |-> PlainScope,
     list |-> << >>]

\* isCompatible warns for every template, valid or not
WarnsAbout_Always(isValid) == TRUE

\* isCompatible: if (!isValid) console.warn(...)
WarnsAbout(isValid) == ~isValid

IsCompatible(config, context) ==
    /\ LET scope == getRuntimeVariables(globalScope, context)
           res   == urlDrilldownValidateUrlTemplate(config.url, scope)
       IN  call' = [NoCall EXCEPT !.op = "isCompatible", !.config = config,
                                  !.context = context, !.gs = globalScope,
                                  !.valid = res.isValid,
                                  !.warned = WarnsAbout(res.isValid)]
    /\ UNCHANGED <<globalScope, execs, navCalls, openCalls>>
    /\ UNCHANGED notDrill

\* getHref compiling against the global scope alone
HrefUrl_GlobalOnly(config, context, gs) == urlDrilldownCompileUrl(config.url.template, gs)

\* getHref: the scope, then the compiled URL
HrefUrl(config, context, gs) ==
    LET scope == getRuntimeVariables(gs, context)
    IN  urlDrilldownCompileUrl(config.url.template, scope)

GetHref(config, context) ==
    /\ call' = [NoCall EXCEPT !.op = "getHref", !.config = config,
                              !.context = context, !.gs = globalScope,
                              !.url = HrefUrl(config, context, globalScope)]
    /\ UNCHANGED <<globalScope, execs, navCalls, openCalls>>
    /\ UNCHANGED notDrill

\* execute's first line
ExecuteUrl(config, context, gs) ==
    urlDrilldownCompileUrl(config.url.template, getRuntimeVariables(gs, context))

\* execute without the await: its promise resolves at once
AfterNavigate_NoAwait == "resolved"

\* execute after deps.navigateToUrl(url) returned its promise: await
AfterNavigate == "pending"

\* execute runs up to its await (or, in a new tab, to its end)
Execute(config, context) ==
    LET id  == Len(execs) + 1
        url == ExecuteUrl(config, context, globalScope)
    IN  /\ IF config.openInNewTab
           THEN /\ openCalls' = Append(openCalls,
                       [by |-> id, url |-> url, target |-> "_blank", features |-> "noopener"])
                /\ execs' = Append(execs,
                       [config |-> config, context |-> context, gs |-> globalScope,
                        nav |-> "none", state |-> "resolved"])
                /\ UNCHANGED navCalls
           ELSE /\ navCalls' = Append(navCalls, [by |-> id, url |-> url])
                /\ execs' = Append(execs,
                       [config |-> config, context |-> context, gs |-> globalScope,
                        nav |-> "pending", state |-> AfterNavigate])
                /\ UNCHANGED openCalls
        /\ UNCHANGED <<globalScope, call>>
        /\ UNCHANGED notDrill

\* the promise of deps.navigateToUrl settles
NavSettle(i, outcome) ==
    /\ i \in 1..Len(execs)
    /\ execs[i].nav = "pending"
    /\ execs' = [execs EXCEPT ![i].nav = outcome]
    /\ UNCHANGED <<globalScope, navCalls, openCalls, call>>
    /\ UNCHANGED notDrill

\* execute resumes after its await and its own promise settles the same way
ExecuteResume(i) ==
    /\ i \in 1..Len(execs)
    /\ execs[i].state = "pending"
    /\ execs[i].nav \in {"resolved", "rejected"}
    /\ execs' = [execs EXCEPT ![i].state = execs[i].nav]
    /\ UNCHANGED <<globalScope, navCalls, openCalls, call>>
    /\ UNCHANGED notDrill

GetRuntimeVariables(context) ==
    /\ call' = [NoCall EXCEPT !.op = "getRuntimeVariables", !.context = context,
                              !.gs = globalScope,
                              !.scope = getRuntimeVariables(globalScope, context)]
    /\ UNCHANGED <<globalScope, execs, navCalls, openCalls>>
    /\ UNCHANGED notDrill

\* The names of the variables a template may use: the event's, the panel's
\* (under context.panel), then the global scope's flattened keys, each group
\* sorted. A name is the path of its keys.
SortedPaths ==
    << <<"context", "panel", "id">>, <<"event", "value">>, <<"kibanaUrl">>, <<"locale">> >>

getVariableList(gs, context) ==
    LET eventVariables   == << <<"event", "value">> >>
        contextVariables == << <<"context", "panel", "id">> >>
        globalVariables  == SelectSeq(SortedPaths, LAMBDA path : Lookup(gs, path).found)
    IN  eventVariables \o contextVariables \o globalVariables

GetVariableList(context) ==
    /\ call' = [NoCall EXCEPT !.op = "getVariableList", !.context = context,
                              !.gs = globalScope,
                              !.list = getVariableList(globalScope, context)]
    /\ UNCHANGED <<globalScope, execs, navCalls, openCalls>>
    /\ UNCHANGED notDrill

\* the host's global scope changes (another Kibana URL, other keys)
SetGlobalScope(gs) ==
    /\ gs # globalScope
    /\ globalScope' = gs
    /\ UNCHANGED <<execs, navCalls, openCalls, call>>
    /\ UNCHANGED notDrill

InitDrill ==
    /\ globalScope = PlainScope
    /\ execs = << >>
    /\ navCalls = << >>
    /\ openCalls = << >>
    /\ call = NoCall

NextExec ==
    \/ \E config \in Configs, context \in Contexts :
          Len(execs) < MaxExec /\ Execute(config, context)
    \/ \E i \in 1..MaxExec, outcome \in {"resolved", "rejected"} : NavSettle(i, outcome)
    \/ \E i \in 1..MaxExec : ExecuteResume(i)
    \/ \E gs \in GlobalScopes : SetGlobalScope(gs)

NextDrill ==
    \/ \E config \in Configs, context \in Contexts : IsCompatible(config, context)
    \/ \E config \in Configs, context \in Contexts : GetHref(config, context)
    \/ \E config \in Configs, context \in Contexts :
          Len(execs) < MaxTracked /\ Execute(config, context)
    \/ \E context \in Contexts : GetRuntimeVariables(context)
    \/ \E context \in Contexts : GetVariableList(context)
    \/ \E gs \in GlobalScopes : SetGlobalScope(gs)

(***************************************************************************)
(* createConfig and isConfigValid. A config is an object on the heap; the  *)
(* callers hold references to it.                                          *)
(***************************************************************************)
DefaultConfig == [url |-> [template |-> << >>], openInNewTab |-> FALSE]

NotChecked == [called |-> FALSE, config |-> DefaultConfig, result |-> FALSE]

\* createConfig handing out one shared default object
NewRef_Shared(h) == 1

\* createConfig evaluates an object literal: a new object at each call
NewRef(h) == Len(h) + 1

\* !!config.url.template
isConfigValid(config) == config.url.template # << >>

CreateConfig ==
    /\ Len(created) < MaxConfigs
    /\ LET ref   == NewRef(heap)
           heap2 == IF ref > Len(heap) THEN Append(heap, DefaultConfig) ELSE heap
       IN  /\ heap' = heap2
           /\ created' = Append(created, [ref |-> ref, initial |-> heap2[ref]])
           /\ view' = Append(view, DefaultConfig)
    /\ UNCHANGED checked
    /\ UNCHANGED notCfg

\* the holder of the i-th created config edits it in place
EditConfig(i, template, openInNewTab) ==
    /\ i \in 1..Len(created)
    /\ LET value == [url |-> [template |-> template], openInNewTab |-> openInNewTab]
       IN  /\ value # heap[created[i].ref]
           /\ heap' = [heap EXCEPT ![created[i].ref] = value]
           /\ view' = [view EXCEPT ![i] = value]
    /\ UNCHANGED <<created, checked>>
    /\ UNCHANGED notCfg

IsConfigValid(i) ==
    /\ i \in 1..Len(created)
    /\ LET config == heap[created[i].ref]
       IN  checked' = [called |-> TRUE, config |-> config, result |-> isConfigValid(config)]
    /\ UNCHANGED <<heap, created, view>>
    /\ UNCHANGED notCfg

InitCfg ==
    /\ heap = << >>
    /\ created = << >>
    /\ view = << >>
    /\ checked = NotChecked

NextCfg ==
    \/ CreateConfig
    \/ \E i \in 1..MaxConfigs, template \in Templates, openInNewTab \in BOOLEAN :
          EditConfig(i, template, openInNewTab)
    \/ \E i \in 1..MaxConfigs : IsConfigValid(i)

(***************************************************************************)
(* DatatableVisualization.setup and the loader it registers.               *)
(***************************************************************************)
\* what one run of the loader registers after its import, in order
LoaderRegistrations(by) ==
    << [kind |-> "function", name |-> "datatableColumns", by |-> by],
       [kind |-> "function", name |-> "datatable", by |-> by],
       [kind |-> "renderer", name |-> "datatableRenderer", by |-> by] >>

\* setup registering the functions and the renderer itself, eagerly
Setup_Eager ==
    /\ setups < MaxSetups
    /\ setups' = setups + 1
    /\ vizLoaders' = vizLoaders + 1
    /\ registry' = registry \o LoaderRegistrations(0)
    /\ UNCHANGED loads
    /\ UNCHANGED notLens

\* setup: one call of editorFrame.registerVisualization with the loader
Setup ==
    /\ setups < MaxSetups
    /\ setups' = setups + 1
    /\ vizLoaders' = vizLoaders + 1
    /\ UNCHANGED <<loads, registry>>
    /\ UNCHANGED notLens

\* the editor frame invokes a registered loader, which starts the import
InvokeLoader ==
    /\ vizLoaders > 0
    /\ Len(loads) < MaxLoads
    /\ loads' = Append(loads, [state |-> "importing", value |-> "none"])
    /\ UNCHANGED <<setups, vizLoaders, registry>>
    /\ UNCHANGED notLens

\* the import resolves: the loader registers and returns the visualization
ImportResolve(i) ==
    /\ i \in 1..Len(loads)
    /\ loads[i].state = "importing"
    /\ registry' = registry \o LoaderRegistrations(i)
    /\ loads' = [loads EXCEPT ![i] = [state |-> "resolved", value |-> "datatableVisualization"]]
    /\ UNCHANGED <<setups, vizLoaders>>
    /\ UNCHANGED notLens

\* the import fails (the chunk cannot be fetched): the loader's promise rejects
ImportReject(i) ==
    /\ i \in 1..Len(loads)
    /\ loads[i].state = "importing"
    /\ loads' = [loads EXCEPT ![i] = [state |-> "rejected", value |-> "none"]]
    /\ UNCHANGED <<setups, vizLoaders, registry>>
    /\ UNCHANGED notLens

InitLens ==
    /\ setups = 0
    /\ vizLoaders = 0
    /\ loads = << >>
    /\ registry = << >>

NextLens ==
    \/ Setup
    \/ InvokeLoader
    \/ \E i \in 1..MaxLoads : ImportResolve(i)
    \/ \E i \in 1..MaxLoads : ImportReject(i)

(***************************************************************************)
(* The specifications, one per component.                                  *)
(***************************************************************************)
Init == InitLog /\ InitDrill /\ InitCfg /\ InitLens

SpecLog == Init /\ [][NextLog]_vars

SpecExec == Init /\ [][NextExec]_vars

SpecDrill == Init /\ [][NextDrill]_vars

SpecCfg == Init /\ [][NextCfg]_vars

SpecLens == Init /\ [][NextLens]_vars

(***************************************************************************)
(* Properties of the query logging.                                        *)
(***************************************************************************)
RECURSIVE Count(_, _)
Count(s, tok) ==
    IF s = << >> THEN 0
    ELSE (IF Head(s) = tok THEN 1 ELSE 0) + Count(Tail(s), tok)

\* s ends with suffix
EndsWith(s, suffix) ==
    /\ Len(suffix) <= Len(s)
    /\ SubSeq(s, Len(s) - Len(suffix) + 1, Len(s)) = suffix

\* the part of the log entry that getResponseMessage wrote, if any
LoggedResponsePart ==
    IF lastLog.level = "debug" THEN lastLog.msg
    ELSE IF lastLog.level = "error" /\ lastError.isResponseError
         THEN getResponseMessage(lastEvent)
    ELSE << >>

\* C1: every 'response' event makes at most one logger call, and exactly one
\* if and only if the event is present and logQueries is true: logger.error
\* when the error argument is set, else logger.debug with tags ['query'];
\* otherwise neither logger.error nor logger.debug is called.
C1_OneEntryPerResponse ==
    [][ nResponse' # nResponse =>
          LET qualifies == lastEvent'.present /\ logQueries
          IN  /\ (qualifies /\ lastError'.present) =>
                    /\ errorCalls' = errorCalls + 1
                    /\ debugCalls' = debugCalls
                    /\ lastLog'.level = "error"
              /\ (qualifies /\ ~lastError'.present) =>
                    /\ debugCalls' = debugCalls + 1
                    /\ errorCalls' = errorCalls
                    /\ lastLog'.level = "debug"
                    /\ lastLog'.tags = <<"query">>
              /\ ~qualifies =>
                    /\ errorCalls' = errorCalls
                    /\ debugCalls' = debugCalls
                    /\ lastLog' = NoLog ]_vars

\* an error arrives without an event after an error with an event was logged
C1_Witness ==
    /\ logQueries
    /\ nResponse = 2
    /\ errorCalls = 1
    /\ debugCalls = 0
    /\ lastError.present
    /\ ~lastEvent.present
    /\ lastLog = NoLog

\* the querystring as text: a string as is, an object url-encoded, undefined empty
C4_QueryText(qs) ==
    IF qs.tag = "string" THEN qs.s
    ELSE IF qs.tag = "object" THEN stringify(qs.pairs)
    ELSE << >>

\* C4: the message logged for a response is '<statusCode>\n<method> <path>',
\* then '?<querystring>' only when the querystring is non-empty, then
\* '\n<body>' only when params.body is truthy; with an empty or undefined
\* querystring there is no '?', with no body there is no trailing newline.
C4_ResponseFormat ==
    lastLog.level = "debug" =>
        LET e   == lastEvent
            qs  == C4_QueryText(e.querystring)
            msg == lastLog.msg
            head == <<ToString(e.statusCode), "\n", e.method, " ", e.path>>
        IN  /\ msg = head
                     \o (IF qs # << >> THEN <<"?">> \o qs ELSE << >>)
                     \o (IF Truthy(e.body) THEN <<"\n">> \o ensureString(e.body) ELSE << >>)
            /\ qs = << >> => ~Contains(msg, "?")
            /\ ~Truthy(e.body) => (msg[Len(msg)] # "\n" /\ Count(msg, "\n") = 1)

\* an empty object as querystring and an empty string as body: neither '?'
\* nor a second line
C4_Witness ==
    /\ lastLog.level = "debug"
    /\ lastEvent.querystring = QsObject(<< >>)
    /\ lastEvent.body = Body("string", "absent", FALSE, << >>)
    /\ lastLog.msg = <<"200", "\n", "GET", " ", "/idx/_search">>

\* C6: for a ResponseError the message is getResponseMessage(event) followed
\* by ' [<type>]: <reason>', the reason being event.body.error.reason and
\* error.message only when that reason is null or undefined; for every other
\* error it is exactly '[<name>]: <message>', with no status code, method,
\* path or request body in it.
C6_ErrorFormat ==
    lastLog.level = "error" =>
        LET e      == lastEvent
            err    == lastError
            given  == e.respBody.defined /\ e.respBody.hasError
            type   == IF given THEN Interpolate(e.respBody.type) ELSE <<"undefined">>
            reason == IF given /\ e.respBody.reason.tag = "string"
                      THEN e.respBody.reason.s ELSE err.message
        IN  IF err.isResponseError
            THEN lastLog.msg = getResponseMessage(e) \o <<" [">> \o type \o <<"]: ">> \o reason
            ELSE /\ lastLog.msg = <<"[", err.name, "]: ">> \o err.message
                 /\ \A t \in {ToString(e.statusCode), e.method, e.path} :
                        ~Contains(lastLog.msg, t)
                 /\ \A i \in 1..Len(e.body.content) :
                        ~Contains(lastLog.msg, e.body.content[i])

\* a ResponseError whose reason is the empty string: no fallback to error.message
C6_Witness ==
    /\ lastLog.level = "error"
    /\ lastError.isResponseError
    /\ lastEvent.respBody.hasError
    /\ lastEvent.respBody.reason = StrVal(<< >>)
    /\ EndsWith(lastLog.msg, <<" [", "TYPE", "]: ">>)

\* C9: in the log a string body appears unchanged, a Buffer as '[buffer]', a
\* readable stream (readable set, _read a function) as '[stream]', every
\* other body JSON-serialised; the contents of a Buffer or of a readable
\* stream never appear, and a Buffer is never JSON-serialised.
C9_BodyInLog ==
    (lastLog.level # "none" /\ Truthy(lastEvent.body)) =>
        LET b    == lastEvent.body
            msg  == lastLog.msg
            part == LoggedResponsePart
            isStream == b.kind = "object" /\ b.readable = "true" /\ b.read
            hidden   == \A i \in 1..Len(b.content) : ~Contains(msg, b.content[i])
        IN  /\ b.kind = "string" =>
                   (part # << >> => EndsWith(part, <<"\n">> \o b.content))
            /\ b.kind = "buffer" =>
                   /\ hidden
                   /\ ~Contains(msg, "{")
                   /\ ~Contains(msg, "[stream]")
                   /\ part # << >> => EndsWith(part, <<"\n", "[buffer]">>)
            /\ (b.kind # "buffer" /\ isStream) =>
                   /\ hidden
                   /\ ~Contains(msg, "{")
                   /\ part # << >> => EndsWith(part, <<"\n", "[stream]">>)
            /\ (b.kind = "object" /\ ~isStream) =>
                   (part # << >> => EndsWith(part, <<"\n", "{">> \o b.content \o <<"}">>))

\* a Buffer that also looks like a readable stream was logged
C9_Witness ==
    /\ lastLog.level = "debug"
    /\ lastEvent.body = Body("buffer", "true", TRUE, <<"BYTES">>)
    /\ EndsWith(lastLog.msg, <<"\n", "[buffer]">>)

(***************************************************************************)
(* Properties of the URL drilldown.                                        *)
(***************************************************************************)
\* the calls the i-th execute made on each channel
OpensBy(i) == SelectSeq(openCalls, LAMBDA c : c.by = i)
NavsBy(i)  == SelectSeq(navCalls, LAMBDA c : c.by = i)

\* C2: execute navigates exactly once to the URL compiled from the template
\* and the runtime variables: with openInNewTab one window.open(url, '_blank',
\* 'noopener') and no navigateToUrl; without it one navigateToUrl(url), no
\* window.open, and execute's promise is not resolved before navigateToUrl's.
C2_OneChannel ==
    \A i \in 1..Len(execs) :
        LET e   == execs[i]
            url == urlDrilldownCompileUrl(e.config.url.template,
                                          getRuntimeVariables(e.gs, e.context))
        IN  IF e.config.openInNewTab
            THEN /\ OpensBy(i) = <<[by |-> i, url |-> url, target |-> "_blank",
                                    features |-> "noopener"]>>
                 /\ NavsBy(i) = << >>
            ELSE /\ NavsBy(i) = <<[by |-> i, url |-> url]>>
                 /\ OpensBy(i) = << >>
                 /\ e.state = "resolved" => e.nav = "resolved"

\* two executions: one opened a tab, the other navigated and has resolved
C2_Witness ==
    /\ Len(execs) = 2
    /\ execs[1].config.openInNewTab
    /\ Len(openCalls) = 1
    /\ ~execs[2].config.openInNewTab
    /\ execs[2].config.url.template = EventTemplate
    /\ execs[2].state = "resolved"
    /\ Len(navCalls) = 1

\* the URL the i-th execute navigated to
NavigatedUrl(i) ==
    IF OpensBy(i) # << >> THEN OpensBy(i)[1].url ELSE NavsBy(i)[1].url

SameInputs(e, c) == e.config = c.config /\ e.context = c.context /\ e.gs = c.gs

\* C3: for the same config, context and global scope the URL getHref returns
\* is the URL execute navigates to, whatever calls of isCompatible, getHref,
\* execute, getRuntimeVariables or getVariableList came before either.
C3_HrefIsExecuteUrl ==
    call.op = "getHref" =>
        \A i \in 1..Len(execs) :
            SameInputs(execs[i], call) => NavigatedUrl(i) = call.url

\* getHref after an execute of the same template with variables
C3_Witness ==
    /\ call.op = "getHref"
    /\ Len(execs) = 1
    /\ SameInputs(execs[1], call)
    /\ call.config.url.template = EventTemplate
    /\ call.context.value = <<"a", " ", "b">>
    /\ call.gs = ShadowScope
    /\ call.url = <<"https://a/?v=", "a", "%20", "b", "&p=", "p2">>

\* C7: isCompatible resolves to the isValid flag of
\* urlDrilldownValidateUrlTemplate for config.url and the runtime variables,
\* warns on the console if and only if the flag is false, and calls neither
\* deps.navigateToUrl nor window.open.
C7_IsCompatible ==
    /\ [](call.op = "isCompatible" =>
            /\ call.valid = urlDrilldownValidateUrlTemplate(
                                call.config.url,
                                getRuntimeVariables(call.gs, call.context)).isValid
            /\ call.warned = ~call.valid)
    /\ [][(call' # call /\ call'.op = "isCompatible") =>
            (navCalls' = navCalls /\ openCalls' = openCalls /\ execs' = execs)]_vars

\* an invalid, non-empty template checked after an execute navigated
C7_Witness ==
    /\ call.op = "isCompatible"
    /\ call.config.url.template = KibanaTemplate
    /\ call.gs = ShadowScope
    /\ ~call.valid
    /\ call.warned
    /\ Len(navCalls) = 1

\* C10: in the scope of getRuntimeVariables 'context' is { panel:
\* getPanelVariables(context) } and 'event' is getEventScope(context), also
\* when the global scope has keys of these names; every other key of the
\* global scope is there unchanged.
C10_ContextAndEventWin ==
    call.op = "getRuntimeVariables" =>
        /\ DOMAIN call.scope = DOMAIN call.gs \cup {"context", "event"}
        /\ call.scope["context"] = [panel |-> [id |-> call.context.panelId]]
        /\ call.scope["event"] = [value |-> call.context.value]
        /\ \A k \in DOMAIN call.gs \ {"context", "event"} : call.scope[k] = call.gs[k]

\* a global scope with 'context' and 'event' keys of its own
C10_Witness ==
    /\ call.op = "getRuntimeVariables"
    /\ call.gs = ShadowScope
    /\ call.scope["locale"] = <<"en">>
    /\ call.scope["event"] = [value |-> <<"v1">>]

(***************************************************************************)
(* Properties of createConfig and isConfigValid.                           *)
(***************************************************************************)
\* C8: isConfigValid is true if and only if the template is a non-empty
\* string, whatever openInNewTab; createConfig returns an empty template with
\* openInNewTab false, which is invalid; every createConfig returns a fresh
\* object, so a created config holds what its own holder last wrote.
C8_ConfigValidity ==
    /\ checked.called => (checked.result <=> checked.config.url.template # << >>)
    /\ \A i \in 1..Len(created) :
          /\ created[i].initial = [url |-> [template |-> << >>], openInNewTab |-> FALSE]
          /\ (checked.called /\ checked.config = created[i].initial) => ~checked.result
          /\ heap[created[i].ref] = view[i]
          /\ \A j \in 1..Len(created) : j # i => created[j].ref # created[i].ref

\* the first config was edited and is valid, the second one is as created
C8_Witness ==
    /\ Len(created) = 2
    /\ view[1] = [url |-> [template |-> KibanaTemplate], openInNewTab |-> FALSE]
    /\ heap[created[2].ref] = DefaultConfig
    /\ checked.called
    /\ checked.config = view[1]
    /\ checked.result

(***************************************************************************)
(* Properties of the Lens datatable registration.                          *)
(***************************************************************************)
Resolved == {i \in 1..Len(loads) : loads[i].state = "resolved"}

\* C5: setup calls registerVisualization once and registers no function or
\* renderer itself; the registry holds, per loader invocation whose import
\* has resolved and for no other, the datatableColumns function, the
\* datatable function and one renderer, in this order, and that invocation's
\* promise is resolved with datatableVisualization.
C5_LazyRegistration ==
    /\ vizLoaders = setups
    /\ Len(registry) = 3 * Cardinality(Resolved)
    /\ \A k \in 0..(Cardinality(Resolved) - 1) :
          LET by == registry[3 * k + 1].by
          IN  /\ by \in Resolved
              /\ loads[by].value = "datatableVisualization"
              /\ registry[3 * k + 1] = [kind |-> "function", name |-> "datatableColumns", by |-> by]
              /\ registry[3 * k + 2] = [kind |-> "function", name |-> "datatable", by |-> by]
              /\ registry[3 * k + 3] = [kind |-> "renderer", name |-> "datatableRenderer", by |-> by]
    /\ \A i \in Resolved :
          Cardinality({k \in 0..(Cardinality(Resolved) - 1) : registry[3 * k + 1].by = i}) = 1

\* setup ran, the second invocation's import resolved before the first's,
\* a third is still importing
C5_Witness ==
    /\ setups = 1
    /\ Len(loads) = 3
    /\ loads[3].state = "importing"
    /\ Len(registry) = 6
    /\ registry[1].by = 2
    /\ registry[4].by = 1

====
